---- MODULE Spec2Model ----
(***************************************************************************)
(* Model of rampwf/score_types/brier_score.py: the four Brier scorers      *)
(* (BrierScore, BrierSkillScore, BrierScoreReliability,                    *)
(* BrierScoreResolution), their constructors, score_function and __call__. *)
(*                                                                         *)
(* Numbers.  The arithmetic is numpy's float64: every operation rounds to  *)
(* the nearest double, ties to even.  A floating-point value is a record   *)
(* [kind, s, e, hi, lo]: kind "num" is the double s * (hi * 2^28 + lo) *   *)
(* 2^e with a 53-bit significand (zero has s = 0); "nan", "inf" and "-inf" *)
(* are the IEEE special values.  Subnormal numbers, overflow and the sign  *)
(* of zero are outside the values the scorers reach here.  An input        *)
(* probability or bin edge is written as an integer count of tenths        *)
(* (Scale == 10) and stands for the double of that decimal literal.  A     *)
(* call that raises has a result whose kind is the exception's name.       *)
(*                                                                         *)
(* Specifications.  Spec evaluates score_function and __call__ of the four *)
(* scorers, in any order, on aligned and misaligned data; SpecCall         *)
(* evaluates __call__ once on each aligned input under several bin         *)
(* layouts; SpecBins constructs the binned scorers over every bounded bins *)
(* argument.                                                               *)
(***************************************************************************)
EXTENDS Integers, Sequences, FiniteSets, TLC

\* ------------------------------------------------------------- bounds
MaxLen == 2        \* longest input sequence drawn under Spec and SpecCall
MaxEdges == 3      \* longest explicit bin-edge sequence under SpecBins

\* one tenth: the step 0.1 of the default bins, and the unit of the inputs
Scale == 10

\* ------------------------------------------------ float64 arithmetic
\* A finite non-zero double is sign * (hi * 2^28 + lo) * 2^e with a 53-bit
\* significand split in two limbs: 2^24 <= hi < 2^25 and 0 <= lo < 2^28.
MantBits == 53
LimbBits == 28
HalfBits == 14
GuardBits == 3
Limb == 268435456
Half == 16384
DivRadix == 8
DivSteps == 18

Pow2Table == <<1, 2, 4, 8, 16, 32, 64, 128, 256, 512, 1024, 2048, 4096, 8192,
               16384, 32768, 65536, 131072, 262144, 524288, 1048576, 2097152,
               4194304, 8388608, 16777216, 33554432, 67108864, 134217728,
               268435456, 536870912, 1073741824>>
Pow2(k) == Pow2Table[k + 1]

Float(s, e, hi, lo) == [kind |-> "num", s |-> s, e |-> e, hi |-> hi, lo |-> lo]
Special(k) == [kind |-> k, s |-> 0, e |-> 0, hi |-> 0, lo |-> 0]
Zero == Float(0, 0, 0, 0)
NaN  == Special("nan")
PInf == Special("inf")
NInf == Special("-inf")
Raised(exc) == Special(exc)
NoResult == Special("none")

IsNum(x) == x.kind = "num"
IsInf(x) == x.kind \in {"inf", "-inf"}
IsError(x) == x.kind \in {"ValueError", "IndexError", "ZeroDivisionError"}
Sign(x) == IF x.kind = "inf" THEN 1 ELSE IF x.kind = "-inf" THEN -1 ELSE x.s
InfOf(s) == IF s > 0 THEN PInf ELSE NInf

\* number of bits of 0 <= x < 2^(2k), found by halving k (a power of two)
RECURSIVE BitLenFrom(_, _)
BitLenFrom(x, k) ==
    IF k = 0 THEN x
    ELSE IF x < Pow2(k) THEN BitLenFrom(x, k \div 2)
    ELSE k + BitLenFrom(x \div Pow2(k), k \div 2)

\* number of bits of 0 <= x < 2^31
BitLen(x) == BitLenFrom(x, 16)

\* a significand of fewer than 53 bits, shifted left by k bits (exact)
Widen(s, e, hi, lo, k) ==
    IF k >= LimbBits
    THEN Float(s, e - k, lo * Pow2(k - LimbBits), 0)
    ELSE Float(s, e - k, hi * Pow2(k) + lo \div Pow2(LimbBits - k),
               (lo % Pow2(LimbBits - k)) * Pow2(k))

\* the 53-bit significand (khi, klo) with the dropped bits rest out of
\* 2 * half: round to nearest, ties to even
Nearest(s, e, khi, klo, rest, half, sticky) ==
    IF rest < half \/ (rest = half /\ ~sticky /\ klo % 2 = 0)
    THEN Float(s, e, khi, klo)
    ELSE IF klo + 1 < Limb THEN Float(s, e, khi, klo + 1)
    ELSE IF khi + 1 < Pow2(MantBits - LimbBits) THEN Float(s, e, khi + 1, 0)
    ELSE Float(s, e + 1, Pow2(MantBits - LimbBits - 1), 0)

\* a significand of more than 53 bits, cut by r bits and rounded
Narrow(s, e, hi, lo, sticky, r) ==
    Nearest(s, e + r, hi \div Pow2(r),
            (hi % Pow2(r)) * Pow2(LimbBits - r) + lo \div Pow2(r),
            lo % Pow2(r), Pow2(r - 1), sticky)

\* a significand of len bits brought to 53 bits
Fit(s, e, hi, lo, sticky, len) ==
    IF len <= MantBits THEN Widen(s, e, hi, lo, MantBits - len)
    ELSE Narrow(s, e, hi, lo, sticky, len - MantBits)

\* round to nearest, ties to even: the double nearest to
\* s * (hi * 2^28 + lo + f) * 2^e, where 0 < f < 1 when sticky and f = 0
\* otherwise; hi < 2^30, and hi * 2^28 + lo >= 2^55 when sticky
Round(s, e, hi, lo, sticky) ==
    IF hi = 0 /\ lo = 0 THEN Zero
    ELSE Fit(s, e, hi, lo, sticky,
             IF hi > 0 THEN LimbBits + BitLen(hi) ELSE BitLen(lo))

\* the same with a low limb outside 0..2^28-1, carried into the high limb
Carried(s, e, hi, lo, sticky) ==
    Round(s, e, hi + lo \div Limb, lo % Limb, sticky)

\* the double of a Python int, |n| < 2^28
FromInt(n) ==
    Round(IF n < 0 THEN -1 ELSE 1, 0, 0, IF n < 0 THEN -n ELSE n, FALSE)
One == FromInt(1)

FNeg(x) == IF IsNum(x) THEN [x EXCEPT !.s = -x.s]
           ELSE IF x.kind = "inf" THEN NInf
           ELSE IF x.kind = "-inf" THEN PInf ELSE x

\* |x| < |y| on finite non-zero doubles
MagLt(x, y) ==
    \/ x.e < y.e
    \/ x.e = y.e /\ (x.hi < y.hi \/ (x.hi = y.hi /\ x.lo < y.lo))

\* x < y and x <= y; a comparison with nan is false
FLt(x, y) ==
    IF x.kind = "nan" \/ y.kind = "nan" THEN FALSE
    ELSE IF ~IsNum(x) \/ ~IsNum(y) THEN
        (IF IsInf(x) /\ IsInf(y) THEN Sign(x) < Sign(y)
         ELSE IF IsInf(x) THEN Sign(x) < 0 ELSE Sign(y) > 0)
    ELSE IF x.s # y.s THEN x.s < y.s
    ELSE IF x.s = 0 THEN FALSE
    ELSE IF x.s > 0 THEN MagLt(x, y) ELSE MagLt(y, x)
FLe(x, y) ==
    IF x.kind = "nan" \/ y.kind = "nan" THEN FALSE ELSE ~FLt(y, x)

\* the significand of x with three guard bits appended, in two limbs
GuardHi(x) == x.hi * Pow2(GuardBits) + x.lo \div Pow2(LimbBits - GuardBits)
GuardLo(x) == (x.lo % Pow2(LimbBits - GuardBits)) * Pow2(GuardBits)

\* the significand (hi, lo) shifted right by d bits, with a sticky flag for
\* the bits shifted out
ShiftRight(hi, lo, d) ==
    IF d >= LimbBits
    THEN <<0, hi \div Pow2(d - LimbBits),
           lo # 0 \/ hi % Pow2(d - LimbBits) # 0>>
    ELSE <<hi \div Pow2(d), (hi % Pow2(d)) * Pow2(LimbBits - d) + lo \div Pow2(d),
           lo % Pow2(d) # 0>>

\* x plus (m = 1) or minus (m = -1) the aligned significand w of the smaller
\* operand; a sticky remainder borrows one unit from a difference
AddAligned(x, m, w) ==
    Carried(x.s, x.e - GuardBits, GuardHi(x) + m * w[1],
            GuardLo(x) + m * w[2] - (IF m < 0 /\ w[3] THEN 1 ELSE 0), w[3])

\* x + y for finite non-zero x, y with |x| >= |y|: y is aligned to x with
\* three guard bits and a sticky flag, then the sum is rounded
AddOrdered(x, y) ==
    IF x.e - y.e > MantBits + GuardBits THEN x
    ELSE AddAligned(x, IF x.s = y.s THEN 1 ELSE -1,
                    ShiftRight(GuardHi(y), GuardLo(y), x.e - y.e))

FAdd(x, y) ==
    IF x.kind = "nan" \/ y.kind = "nan" THEN NaN
    ELSE IF IsInf(x) /\ IsInf(y) THEN (IF x = y THEN x ELSE NaN)
    ELSE IF IsInf(x) THEN x
    ELSE IF IsInf(y) THEN y
    ELSE IF y.s = 0 THEN x
    ELSE IF x.s = 0 THEN y
    ELSE AddOrdered(IF MagLt(x, y) THEN y ELSE x, IF MagLt(x, y) THEN x ELSE y)

FSub(x, y) == FAdd(x, FNeg(y))

\* the significand of x in four limbs of 14 bits, lowest first
Limbs(x) == <<x.lo % Half, x.lo \div Half, x.hi % Half, x.hi \div Half>>

\* limb i of a times limb j of b, zero outside the four limbs
LimbProduct(a, b, i, j) == IF j \in 0..3 THEN a[i + 1] * b[j + 1] ELSE 0

\* column k of the long multiplication of a and b
Column(a, b, k) ==
    LimbProduct(a, b, 0, k) + LimbProduct(a, b, 1, k - 1)
    + LimbProduct(a, b, 2, k - 2) + LimbProduct(a, b, 3, k - 3)

\* columns k..6 of the product with their carries, c being column k with
\* the carry of the columns below
RECURSIVE Columns(_, _, _, _)
Columns(a, b, k, c) ==
    IF k = 6 THEN <<c>>
    ELSE <<c>> \o Columns(a, b, k + 1, Column(a, b, k + 1) + c \div Half)

\* the 106-bit product given by its columns c, cut to its leading bits
\* (the low 49 bits go into the sticky flag) and rounded
Product(s, e, c) ==
    Round(s, e,
          (c[6] % Half) \div 128 + (c[7] % Half) * 128
              + (c[7] \div Half) * (128 * Half),
          (c[4] % Half) \div 128 + (c[5] % Half) * 128
              + ((c[6] % Half) % 128) * (128 * Half),
          \/ c[1] % Half # 0 \/ c[2] % Half # 0 \/ c[3] % Half # 0
          \/ (c[4] % Half) % 128 # 0)

\* the product of two finite non-zero doubles
MulFinite(x, y) ==
    Product(x.s * y.s, x.e + y.e + 3 * HalfBits + 7,
            Columns(Limbs(x), Limbs(y), 0, Column(Limbs(x), Limbs(y), 0)))

FMul(x, y) ==
    IF x.kind = "nan" \/ y.kind = "nan" THEN NaN
    ELSE IF IsInf(x) \/ IsInf(y)
         THEN (IF Sign(x) * Sign(y) = 0 THEN NaN ELSE InfOf(Sign(x) * Sign(y)))
    ELSE IF x.s = 0 \/ y.s = 0 THEN Zero
    ELSE MulFinite(x, y)

FSq(x) == FMul(x, x)

\* long division, three quotient bits a step: the remainder (rhi, rlo) is
\* below the divisor (dhi, dlo); the digit is estimated from the high limbs
\* (never too large, at most one too small) and then corrected
RECURSIVE DivDigits(_, _, _, _, _, _, _)

\* the next step from the remainder (thi, vlo) and the quotient (qhi, q),
\* both with a low limb to normalise
DivNext(n, dhi, dlo, qhi, q, thi, vlo) ==
    DivDigits(n - 1, thi + vlo \div Limb, vlo % Limb, dhi, dlo,
              qhi * DivRadix + q \div Limb, q % Limb)

\* the digit is one more when the remainder (thi, ulo) still holds the divisor
DivCorrect(n, dhi, dlo, qhi, q, thi, ulo) ==
    IF thi > dhi \/ (thi = dhi /\ ulo >= dlo)
    THEN DivNext(n, dhi, dlo, qhi, q + 1, thi - dhi, ulo - dlo)
    ELSE DivNext(n, dhi, dlo, qhi, q, thi, ulo)

\* the remainder after taking est times the divisor, tlo its low limb
\* before normalisation
DivTake(n, rhi, dhi, dlo, qhi, qlo, est, tlo) ==
    DivCorrect(n, dhi, dlo, qhi, qlo * DivRadix + est,
               rhi * DivRadix - est * dhi + tlo \div Limb, tlo % Limb)

DivEstimate(n, rhi, rlo, dhi, dlo, qhi, qlo, est) ==
    DivTake(n, rhi, dhi, dlo, qhi, qlo, est, rlo * DivRadix - est * dlo)

DivDigits(n, rhi, rlo, dhi, dlo, qhi, qlo) ==
    IF n = 0 THEN <<qhi, qlo, rhi # 0 \/ rlo # 0>>
    ELSE DivEstimate(n, rhi, rlo, dhi, dlo, qhi, qlo,
                     (rhi * DivRadix) \div (dhi + 1))

\* the quotient q = <<hi, lo, sticky>> rounded
Quotient(s, e, q) == Round(s, e, q[1], q[2], q[3])

\* the division started with the integer bit ge of the quotient and the
\* remainder whose low limb is lo before normalisation
DivFrom(x, y, ge, lo) ==
    Quotient(x.s * y.s, x.e - y.e - 3 * DivSteps,
             DivDigits(DivSteps, (IF ge THEN x.hi - y.hi ELSE x.hi) + lo \div Limb,
                       lo % Limb, y.hi, y.lo, 0, IF ge THEN 1 ELSE 0))

\* the quotient of two significands to 55 or 56 bits (one integer bit and
\* DivSteps digits), with a sticky flag for the remainder, rounded
DivFinite(x, y) ==
    DivFrom(x, y, x.hi > y.hi \/ (x.hi = y.hi /\ x.lo >= y.lo),
            IF x.hi > y.hi \/ (x.hi = y.hi /\ x.lo >= y.lo)
            THEN x.lo - y.lo ELSE x.lo)

\* x / y with numpy's division by zero: 0/0 is nan, x/0 is +-inf
FDiv(x, y) ==
    IF x.kind = "nan" \/ y.kind = "nan" THEN NaN
    ELSE IF IsInf(x) THEN (IF IsInf(y) THEN NaN
                           ELSE InfOf(Sign(x) * (IF Sign(y) < 0 THEN -1 ELSE 1)))
    ELSE IF IsInf(y) THEN Zero
    ELSE IF y.s = 0 THEN (IF x.s = 0 THEN NaN ELSE InfOf(Sign(x)))
    ELSE IF x.s = 0 THEN Zero
    ELSE DivFinite(x, y)

\* math.ceil of a finite double x < 2^27, as an integer; 0 stands for every
\* result that is not positive
CeilInt(x) ==
    IF x.s <= 0 THEN 0
    ELSE IF x.e >= 0 THEN x.hi * Limb + x.lo
    ELSE IF -x.e >= MantBits THEN 1
    ELSE IF -x.e >= LimbBits
    THEN x.hi \div Pow2(-x.e - LimbBits)
         + (IF x.hi % Pow2(-x.e - LimbBits) # 0 \/ x.lo # 0 THEN 1 ELSE 0)
    ELSE x.hi * Pow2(LimbBits + x.e) + x.lo \div Pow2(-x.e)
         + (IF x.lo % Pow2(-x.e) # 0 THEN 1 ELSE 0)

\* the double of the decimal literal n/d, correctly rounded as Python reads it
Decimal(n, d) == FDiv(FromInt(n), FromInt(d))

\* the doubles of the literals 0.0, 0.1, ..., 25.0 the inputs are made of
TenthsTable == [k \in 0..(25 * Scale) |-> Decimal(k, Scale)]
\* an input given in tenths, as a float
Tenths(k) == TenthsTable[k]

\* ------------------------------------------------------ numpy helpers
\* acc + s[from] + s[from + step] + ... up to index to, added in that order
RECURSIVE AddUp(_, _, _, _, _)
AddUp(s, from, step, to, acc) ==
    IF from > to THEN acc
    ELSE AddUp(s, from + step, step, to, FAdd(acc, s[from]))

\* numpy's pairwise summation keeps this many running sums
Unroll == 8

\* np.add.reduce over a float64 array of at most 128 entries: fewer than
\* eight entries are added in order from 0.0; otherwise eight running sums
\* take every eighth entry of the leading blocks of eight, are added in
\* pairs, and the trailing entries are added in order
np_sum(s) ==
    LET n == Len(s)
        m == n - (n % Unroll)
        r(j) == AddUp(s, j + Unroll, Unroll, m, s[j])
    IN  IF n < Unroll THEN AddUp(s, 1, 1, n, Zero)
        ELSE AddUp(s, m + 1, 1, n,
                   FAdd(FAdd(FAdd(r(1), r(2)), FAdd(r(3), r(4))),
                        FAdd(FAdd(r(5), r(6)), FAdd(r(7), r(8)))))

\* np.mean: the sum divided by the count, nan on an empty array
np_mean(s) == IF Len(s) = 0 THEN NaN ELSE FDiv(np_sum(s), FromInt(Len(s)))

\* mutant: np.sum in place of np.nansum, a nan entry makes the sum nan
np_nansum_sum(s) == np_sum(s)

\* np.nansum: nan entries count as zero
np_nansum(s) ==
    np_sum([i \in 1..Len(s) |-> IF s[i].kind = "nan" THEN Zero ELSE s[i]])

\* np.histogram(a, bins)[0]: bin k is [bins[k], bins[k+1]), the last bin
\* is closed on the right; values outside every bin are dropped
BinCount(a, edges, k) ==
    Cardinality({i \in 1..Len(a) :
        /\ FLe(edges[k], a[i])
        /\ IF k = Len(edges) - 1 THEN FLe(a[i], edges[k + 1])
                                 ELSE FLt(a[i], edges[k + 1])})

np_histogram(a, edges) == [k \in 1..(Len(edges) - 1) |-> BinCount(a, edges, k)]

\* np.arange(start, stop, step) on doubles: ceil((stop - start) / step)
\* values; the first is start, the second start + step, and value i is
\* start + i * delta with delta the difference of the first two
np_arange(start, stop, step) ==
    LET len   == CeilInt(FDiv(FSub(stop, start), step))
        next  == FAdd(start, step)
        delta == FSub(next, start)
    IN  [i \in 1..len |->
            IF i = 1 THEN start
            ELSE IF i = 2 THEN next
            ELSE FAdd(start, FMul(FromInt(i - 1), delta))]

\* ------------------------------------------------- array operations
\* shape of an elementwise operation on two 1-d arrays (numpy broadcasting):
\* equal lengths, or one of them of length 1; -1 when the shapes clash
BroadcastLen(a, b) ==
    IF Len(a) = Len(b) THEN Len(a)
    ELSE IF Len(a) = 1 THEN Len(b)
    ELSE IF Len(b) = 1 THEN Len(a)
    ELSE -1

At(a, i) == IF Len(a) = 1 THEN a[1] ELSE a[i]

\* (y_proba - y_true_proba) ** 2, elementwise
SqDiff(a, b) == [i \in 1..BroadcastLen(a, b) |-> FSq(FSub(At(a, i), At(b, i)))]

\* a[mask]: the entries of a where the 0/1 array yt is 1
RECURSIVE Select(_, _)
Select(a, yt) ==
    IF a = <<>> THEN <<>>
    ELSE IF Head(yt) = 1 THEN <<Head(a)>> \o Select(Tail(a), Tail(yt))
    ELSE Select(Tail(a), Tail(yt))

\* the outcomes 0/1 and the forecasts in tenths, as float arrays
Floats(yt) == [i \in 1..Len(yt) |-> FromInt(yt[i])]
Probas(yp) == [i \in 1..Len(yp) |-> Tenths(yp[i])]

\* ---------------------------------------------------- valid_indexes
\* valid_indexes is None, a slice, a range or an explicit index list
\* (positions are 0-based as in the source)
None == [t |-> "None", start |-> 0, stop |-> 0, idx |-> <<>>]
Slice(a, b) == [t |-> "slice", start |-> a, stop |-> b, idx |-> <<>>]
Range(a, b) == [t |-> "range", start |-> a, stop |-> b, idx |-> <<>>]
List(s)     == [t |-> "list", start |-> 0, stop |-> 0, idx |-> s]
SliceAll    == [t |-> "slice_all", start |-> 0, stop |-> 0, idx |-> <<>>]

Min(a, b) == IF a < b THEN a ELSE b

\* the positions a range or a list asks for
Positions(vi) ==
    IF vi.t = "range"
    THEN [i \in 1..(IF vi.stop > vi.start THEN vi.stop - vi.start ELSE 0)
             |-> vi.start + i - 1]
    ELSE vi.idx

\* arr[valid_indexes]: a slice is clipped to the array, an index list or
\* range must stay inside it (numpy raises IndexError otherwise)
IndexOk(arr, vi) ==
    vi.t \in {"range", "list"} =>
        \A i \in 1..Len(Positions(vi)) : Positions(vi)[i] < Len(arr)

Take(arr, vi) ==
    IF vi.t = "slice_all" THEN arr
    ELSE IF vi.t = "slice"
    THEN SubSeq(arr, Min(vi.start, Len(arr)) + 1, Min(vi.stop, Len(arr)))
    ELSE [i \in 1..Len(Positions(vi)) |-> arr[Positions(vi)[i] + 1]]

\* predictions.y_pred[...][:, 1]: the second column
Column1(rows) == [i \in 1..Len(rows) |-> rows[i][2]]

\* ------------------------------------------------------ constructors
\* mutant: np.arange(0, 1.0, 0.1), ten edges
DefaultBins_to_one == np_arange(Zero, Decimal(10, 10), Decimal(1, 10))

\* np.arange(0, 1.2, 0.1), the default of the bins argument
DefaultBins == np_arange(Zero, Decimal(12, 10), Decimal(1, 10))

\* bins given in tenths, as the float array the constructor receives
Edges(arg) == [i \in 1..Len(arg) |-> Tenths(arg[i])]

\* (bins[1:] - bins[:-1]) * 0.05, then clipped to [0, 1]
BinCenters(edges) ==
    [k \in 1..(Len(edges) - 1) |->
        LET c == FMul(FSub(edges[k + 1], edges[k]), Decimal(5, 100))
        IN  IF FLt(One, c) THEN One
            ELSE IF FLt(c, Zero) THEN Zero
            ELSE c]

\* ---------------------------------------------------------- __call__
\* mutant: the squared errors are summed, not averaged
BrierScoreCall_sum(yt, yp) ==
    IF BroadcastLen(yp, yt) < 0 THEN Raised("ValueError")
    ELSE np_sum(SqDiff(Probas(yp), Floats(yt)))

BrierScoreCall(yt, yp) ==
    IF BroadcastLen(yp, yt) < 0 THEN Raised("ValueError")
    ELSE np_mean(SqDiff(Probas(yp), Floats(yt)))

\* mutant: the reference forecast is the mean forecast, not the mean outcome
BrierSkillScoreCall_forecast_mean(yt, yp) ==
    IF BroadcastLen(yp, yt) < 0 THEN Raised("ValueError")
    ELSE LET bs   == np_mean(SqDiff(Probas(yp), Floats(yt)))
             bs_c == np_mean(SqDiff(<<np_mean(Probas(yp))>>, Floats(yt)))
         IN  FSub(One, FDiv(bs, bs_c))

BrierSkillScoreCall(yt, yp) ==
    IF BroadcastLen(yp, yt) < 0 THEN Raised("ValueError")
    ELSE LET bs   == np_mean(SqDiff(Probas(yp), Floats(yt)))
             bs_c == np_mean(SqDiff(<<np_mean(Floats(yt))>>, Floats(yt)))
         IN  FSub(One, FDiv(bs, bs_c))

\* pos_obs_freq / fore_freq in one bin: nan in a bin without forecasts
RelFreq(pos_obs_freq, fore_freq) ==
    FDiv(FromInt(pos_obs_freq), FromInt(fore_freq))

\* fore_freq * (bin_centers - pos_obs_rel_freq) ** 2 in bin k
ReliabilityTerm(yt, yp, edges, centers, k) ==
    LET pos_obs_freq == BinCount(Select(yp, yt), edges, k)
        fore_freq    == BinCount(yp, edges, k)
    IN  FMul(FromInt(fore_freq),
             FSq(FSub(centers[k], RelFreq(pos_obs_freq, fore_freq))))

BrierScoreReliabilityCall(yt, yp, edges, centers) ==
    IF Len(yt) # Len(yp) THEN Raised("IndexError")
    ELSE IF Len(yp) = 0 THEN Raised("ZeroDivisionError")
    ELSE FMul(FDiv(One, FromInt(Len(yp))),
              np_nansum([k \in 1..(Len(edges) - 1) |->
                  ReliabilityTerm(yt, Probas(yp), edges, centers, k)]))

\* fore_freq * (pos_obs_rel_freq - climo) ** 2 in bin k
ResolutionTerm(yt, yp, edges, climo, k) ==
    LET pos_obs_freq == BinCount(Select(yp, yt), edges, k)
        fore_freq    == BinCount(yp, edges, k)
    IN  FMul(FromInt(fore_freq),
             FSq(FSub(RelFreq(pos_obs_freq, fore_freq), climo)))

\* mutant: the sum over the bins is not divided by the number of forecasts
BrierScoreResolutionCall_unscaled(yt, yp, edges) ==
    IF Len(yt) # Len(yp) THEN Raised("IndexError")
    ELSE IF Len(yp) = 0 THEN Raised("ZeroDivisionError")
    ELSE LET climo == np_mean(Floats(yt))
             unc   == FMul(climo, FSub(One, climo))
         IN  FDiv(np_nansum([k \in 1..(Len(edges) - 1) |->
                      ResolutionTerm(yt, Probas(yp), edges, climo, k)]),
                  unc)

BrierScoreResolutionCall(yt, yp, edges) ==
    IF Len(yt) # Len(yp) THEN Raised("IndexError")
    ELSE IF Len(yp) = 0 THEN Raised("ZeroDivisionError")
    ELSE LET climo == np_mean(Floats(yt))
             unc   == FMul(climo, FSub(One, climo))
         IN  FDiv(FMul(FDiv(One, FromInt(Len(yp))),
                       np_nansum([k \in 1..(Len(edges) - 1) |->
                           ResolutionTerm(yt, Probas(yp), edges, climo, k)])),
                  unc)

Scorers == {"BrierScore", "BrierSkillScore",
            "BrierScoreReliability", "BrierScoreResolution"}

Call(scorer, yt, yp, edges, centers) ==
    CASE scorer = "BrierScore" -> BrierScoreCall(yt, yp)
      [] scorer = "BrierSkillScore" -> BrierSkillScoreCall(yt, yp)
      [] scorer = "BrierScoreReliability" ->
             BrierScoreReliabilityCall(yt, yp, edges, centers)
      [] scorer = "BrierScoreResolution" ->
             BrierScoreResolutionCall(yt, yp, edges)

\* ---------------------------------------------------- score_function
\* BaseScoreType.check_y_pred_dimensions: the lengths must agree
check_y_pred_dimensions(y_true_proba, y_proba) ==
    Len(y_true_proba) = Len(y_proba)

\* mutant: the default slice starts at the second position
DefaultIndexes_from_one(vi) ==
    IF vi.t = "None" THEN [SliceAll EXCEPT !.t = "slice", !.start = 1,
                                           !.stop = 2147483647]
    ELSE vi

\* valid_indexes = slice(None, None, None) when it is omitted
DefaultIndexes(vi) == IF vi.t = "None" THEN SliceAll ELSE vi

\* TRUE when score_function gets as far as self.__call__
ReachesCall(gt, pr, vi) ==
    /\ IndexOk(pr, DefaultIndexes(vi))
    /\ IndexOk(gt, DefaultIndexes(vi))
    /\ check_y_pred_dimensions(Take(gt, DefaultIndexes(vi)),
                               Column1(Take(pr, DefaultIndexes(vi))))

\* mutant: check_y_pred_dimensions is not called
ScoreFunction_unchecked(scorer, gt, pr, vi, edges, centers) ==
    LET sel == DefaultIndexes(vi)
    IN  IF ~IndexOk(pr, sel) \/ ~IndexOk(gt, sel) THEN Raised("IndexError")
        ELSE Call(scorer, Take(gt, sel), Column1(Take(pr, sel)), edges, centers)

ScoreFunction(scorer, gt, pr, vi, edges, centers) ==
    LET sel == DefaultIndexes(vi)
    IN  IF ~IndexOk(pr, sel) \/ ~IndexOk(gt, sel) THEN Raised("IndexError")
        ELSE LET y_proba == Column1(Take(pr, sel))
                 y_true_proba == Take(gt, sel)
             IN  IF ~check_y_pred_dimensions(y_true_proba, y_proba)
                 THEN Raised("ValueError")
                 ELSE Call(scorer, y_true_proba, y_proba, edges, centers)

\* ------------------------------------------------------------ state
VARIABLES
    y_true,         \* ground_truths.y_pred_label_index: the outcomes, 0 or 1
    y_pred,         \* predictions.y_pred: rows <<p0, p1>> in tenths, p0 + p1 = 1
    name,           \* self.name
    precision,      \* self.precision
    bins_omitted,   \* TRUE when the scorer was constructed without bins
    bins_arg,       \* the bins argument of the constructor, in tenths
    bins,           \* self.bins
    bin_centers,    \* self.bin_centers
    np_err_divide,  \* numpy's process-wide handling of division by zero
    op,             \* the last evaluation: <<scorer, entry point>>
    valid_indexes,  \* the valid_indexes argument of the last score_function
    result          \* what the last evaluation returned or raised

vars == <<y_true, y_pred, name, precision, bins_omitted, bins_arg, bins,
          bin_centers,
          np_err_divide, op, valid_indexes, result>>

\* ----------------------------------------------------------- inputs
Outcomes == {0, 1}
\* forecast probabilities in tenths; 0.3 lies below np.arange's edge
\* 3 * 0.1 = 0.30000000000000004, so it is counted in the bin of 0.2
Probs == {0, 2, 3, 5, 10}

SeqsUpTo(S, n) == UNION {[1..k -> S] : k \in 0..n}

Row(p) == <<Scale - p, p>>
Rows(ps) == [i \in 1..Len(ps) |-> Row(ps[i])]

\* the documented example: outcomes [0,0,1,1], forecasts [0.1,0.2,0.8,0.9]
ExampleTrue == <<0, 0, 1, 1>>
ExamplePred == Rows(<<1, 2, 8, 9>>)

\* five forecasts that are certain and right
SharpTrue == <<1, 1, 0, 0, 0>>
SharpPred == Rows(<<10, 10, 0, 0, 0>>)

\* aligned ground truths and predictions of length at most n, the
\* forecasts drawn from P
Aligned(n, P) ==
    {<<io[1], Rows(io[2])>> : io \in
        {io \in SeqsUpTo(Outcomes, n) \X SeqsUpTo(P, n) :
            Len(io[1]) = Len(io[2])}}
    \cup {<<ExampleTrue, ExamplePred>>}

\* one misaligned input for every pair of different lengths
Misaligned(n) ==
    {<<[i \in 1..a |-> i % 2], Rows([i \in 1..b |-> 5])>> :
        <<a, b>> \in {ab \in (0..n) \X (0..n) : ab[1] # ab[2]}}
    \cup {<<ExampleTrue, SubSeq(ExamplePred, 1, 3)>>}

\* explicit bins arguments, in tenths, non-decreasing
EdgeValues == {0, 5, 10, 100, 120, 250}
NonDecreasing(s) == \A i \in 1..(Len(s) - 1) : s[i] <= s[i + 1]
BinsArgs ==
    {s \in UNION {[1..k -> EdgeValues] : k \in 2..MaxEdges} : NonDecreasing(s)}

\* the valid_indexes arguments explored for arrays of lengths n and m:
\* omitted, and slices, ranges and index lists reaching either length
ValidIndexes(n, m) ==
    {None, Slice(1, n), List(<<0>>)}
    \cup UNION {{Slice(0, k), Range(0, k), List([i \in 1..k |-> i - 1])} :
                    k \in {n, m}}

\* ------------------------------------------------------ construction
\* __init__: name, precision, bins and the derived bin_centers
Constructed(omitted, arg) ==
    /\ name = "brier_score"
    /\ precision = 3
    /\ bins_omitted = omitted
    /\ bins_arg = arg
    /\ bins = (IF omitted THEN DefaultBins ELSE Edges(arg))
    /\ bin_centers = BinCenters(IF omitted THEN DefaultBins ELSE Edges(arg))

Fresh ==
    /\ np_err_divide = "warn"
    /\ op = <<"none", "none">>
    /\ valid_indexes = None
    /\ result = NoResult

\* score_function and __call__ on aligned and misaligned data
Init ==
    /\ \E io \in Aligned(MaxLen, {10}) \cup Misaligned(MaxLen) :
           y_true = io[1] /\ y_pred = io[2]
    /\ Constructed(TRUE, <<>>)
    /\ Fresh

\* __call__ on aligned arrays, under six bin layouts
InitCall ==
    /\ \E io \in Aligned(MaxLen, Probs) \cup {<<SharpTrue, SharpPred>>} :
           y_true = io[1] /\ y_pred = io[2]
    /\ \/ Constructed(TRUE, <<>>)
       \/ \E arg \in {<<0, 5, 10>>, <<0, 100, 250>>, <<0, 250>>, <<5, 10>>,
                       <<0, 120>>} :
              Constructed(FALSE, arg)
    /\ Fresh

\* construction over every bins argument, on a few inputs
InitBins ==
    /\ \E io \in {<<ExampleTrue, ExamplePred>>, <<<<0, 1>>, Rows(<<5, 5>>)>>} :
           y_true = io[1] /\ y_pred = io[2]
    /\ \/ Constructed(TRUE, <<>>)
       \/ \E arg \in BinsArgs : Constructed(FALSE, arg)
    /\ Fresh

\* ---------------------------------------------------------- actions
Frame == UNCHANGED <<y_true, y_pred, name, precision, bins_omitted, bins_arg,
                     bins, bin_centers>>

\* np.seterr(divide="ignore") is the first statement of
\* BrierScoreResolution.__call__; no other evaluation changes the setting
ErrAfterCall(scorer, err) ==
    IF scorer = "BrierScoreResolution" THEN "ignore" ELSE err

\* scorer(y_true_proba, y_proba) on the caller's arrays
DirectCall(scorer) ==
    /\ valid_indexes' = None
    /\ result' = Call(scorer, y_true, Column1(y_pred), bins, bin_centers)
    /\ np_err_divide' = ErrAfterCall(scorer, np_err_divide)
    /\ Frame

\* scorer.score_function(ground_truths, predictions, valid_indexes)
ScoreFunctionCall(scorer, vi) ==
    /\ op' = <<scorer, "score_function">>
    /\ valid_indexes' = vi
    /\ result' = ScoreFunction(scorer, y_true, y_pred, vi, bins, bin_centers)
    /\ np_err_divide' = (IF ReachesCall(y_true, y_pred, vi)
                         THEN ErrAfterCall(scorer, np_err_divide)
                         ELSE np_err_divide)
    /\ Frame

BrierScore__call__ ==
    /\ op' = <<"BrierScore", "__call__">>
    /\ DirectCall("BrierScore")
BrierSkillScore__call__ ==
    /\ op' = <<"BrierSkillScore", "__call__">>
    /\ DirectCall("BrierSkillScore")
BrierScoreReliability__call__ ==
    /\ op' = <<"BrierScoreReliability", "__call__">>
    /\ DirectCall("BrierScoreReliability")
BrierScoreResolution__call__ ==
    /\ op' = <<"BrierScoreResolution", "__call__">>
    /\ DirectCall("BrierScoreResolution")
BrierScore_score_function ==
    \E vi \in ValidIndexes(Len(y_true), Len(y_pred)) :
        ScoreFunctionCall("BrierScore", vi)
BrierSkillScore_score_function ==
    \E vi \in ValidIndexes(Len(y_true), Len(y_pred)) :
        ScoreFunctionCall("BrierSkillScore", vi)
BrierScoreReliability_score_function ==
    \E vi \in ValidIndexes(Len(y_true), Len(y_pred)) :
        ScoreFunctionCall("BrierScoreReliability", vi)
BrierScoreResolution_score_function ==
    \E vi \in ValidIndexes(Len(y_true), Len(y_pred)) :
        ScoreFunctionCall("BrierScoreResolution", vi)

Next ==
    \/ BrierScore__call__
    \/ BrierSkillScore__call__
    \/ BrierScoreReliability__call__
    \/ BrierScoreResolution__call__
    \/ BrierScore_score_function
    \/ BrierSkillScore_score_function
    \/ BrierScoreReliability_score_function
    \/ BrierScoreResolution_score_function

\* one __call__ on each input
NextCall ==
    /\ op = <<"none", "none">>
    /\ \/ BrierScore__call__
       \/ BrierSkillScore__call__
       \/ BrierScoreReliability__call__
       \/ BrierScoreResolution__call__

Spec == Init /\ [][Next]_vars
SpecCall == InitCall /\ [][NextCall]_vars
SpecBins == InitBins /\ [][NextCall]_vars

\* ----------------------------------------------------------- claims
N == Len(y_true)
AlignedNow == Len(y_true) = Len(y_pred)
Forecast(i) == y_pred[i][2]
Called(scorer) == op = <<scorer, "__call__">>
Positives == Cardinality({i \in 1..N : y_true[i] = 1})
AllSame == N >= 1 /\ Positives \in {0, N}

FAbs(x) == IF IsNum(x) /\ x.s < 0 THEN FNeg(x) ELSE x

\* one unit in the last place of the finite non-zero double x
Ulp(x) == Round(1, x.e, 0, 1, FALSE)

\* the rounding error allowed between a float64 result and the exact value
\* of its formula: 2^-45
Rounding == Round(1, -45, 0, 1, FALSE)
\* x is the rational n/d up to rounding
Near(x, n, d) == IsNum(x) /\ FLe(FAbs(FSub(x, Decimal(n, d))), Rounding)

\* the squared errors in hundredths, summed exactly over the first n instances
RECURSIVE SqErrSum(_)
SqErrSum(n) ==
    IF n = 0 THEN 0
    ELSE (Forecast(n) - Scale * y_true[n]) * (Forecast(n) - Scale * y_true[n])
         + SqErrSum(n - 1)

IsExample == y_true = ExampleTrue /\ y_pred = ExamplePred

SelectionFails ==
    \/ ~IndexOk(y_pred, DefaultIndexes(valid_indexes))
    \/ ~IndexOk(y_true, DefaultIndexes(valid_indexes))
SelectedLengthsDiffer ==
    \/ SelectionFails
    \/ Len(Take(y_true, DefaultIndexes(valid_indexes)))
           # Len(Take(y_pred, DefaultIndexes(valid_indexes)))

\* C2: score_function of every scorer ends in an error, never in a score,
\* when the ground truths and the predictions differ in length after the
\* valid-index selection.
C2_MismatchIsAnError ==
    (op[2] = "score_function" /\ SelectedLengthsDiffer) => IsError(result)

C2_Witness ==
    /\ op[2] = "score_function"
    /\ y_true = ExampleTrue /\ Len(y_pred) = 3
    /\ valid_indexes.t = "slice"
    /\ result.kind = "ValueError"

\* valid_indexes names every position 0..n-1, as a list, a range or a slice
FullCover(vi, n) ==
    \/ vi = List([i \in 1..n |-> i - 1])
    \/ vi = Range(0, n)
    \/ vi = Slice(0, n)

\* C3: on aligned data, score_function with valid_indexes listing every
\* position returns what score_function returns with valid_indexes omitted.
C3_FullIndexesSameAsOmitted ==
    (op[2] = "score_function" /\ AlignedNow /\ FullCover(valid_indexes, N)) =>
        result = ScoreFunction(op[1], y_true, y_pred, None, bins, bin_centers)

C3_Witness ==
    /\ op[2] = "score_function" /\ AlignedNow /\ N >= 2
    /\ valid_indexes = List([i \in 1..N |-> i - 1])
    /\ IsNum(result) /\ result # Zero

\* C4: with a positive reference variance the BrierSkillScore lies within
\* its declared bounds, minimum = -1 and maximum = 1.
C4_SkillScoreWithinDeclaredBounds ==
    (Called("BrierSkillScore") /\ AlignedNow /\ N >= 1 /\ ~AllSame) =>
        /\ IsNum(result)
        /\ FLe(FromInt(-1), result) /\ FLe(result, One)

\* C5: when all outcomes are identical, BrierSkillScore.__call__ and
\* BrierScoreResolution.__call__ end in a zero-division outcome (nan or
\* -inf), never in a finite score.
C5_DegenerateOutcomesGiveNoScore ==
    ((Called("BrierSkillScore") \/ Called("BrierScoreResolution"))
        /\ AlignedNow /\ AllSame) => result.kind \in {"nan", "-inf"}

C5_Witness ==
    /\ Called("BrierSkillScore") /\ AlignedNow /\ AllSame /\ N >= 2
    /\ result = NInf

\* forecast i falls in bin k: [bins[k], bins[k+1]), the last bin closed
InBin(i, k) ==
    /\ FLe(bins[k], Tenths(Forecast(i)))
    /\ IF k = Len(bins) - 1 THEN FLe(Tenths(Forecast(i)), bins[k + 1])
                            ELSE FLt(Tenths(Forecast(i)), bins[k + 1])
Count(k) == Cardinality({i \in 1..N : InBin(i, k)})
PosCount(k) == Cardinality({i \in 1..N : InBin(i, k) /\ y_true[i] = 1})
NonEmptyBins == {k \in 1..(Len(bins) - 1) : Count(k) > 0}

\* the decimal bin edges in tenths: 0, 1, ..., 11 for the default bins
DecimalEdges == IF bins_omitted THEN [i \in 1..Len(bins) |-> i - 1] ELSE bins_arg

\* the width of bin k times 0.05, clipped to [0, 1], in units of 1/(20*Scale)
CenterUnits(k) ==
    LET w == DecimalEdges[k + 1] - DecimalEdges[k]
    IN  IF w > 20 * Scale THEN 20 * Scale ELSE IF w < 0 THEN 0 ELSE w

\* count * (bin_center - relative frequency)^2 summed over the non-empty
\* bins among the first k, each term the double nearest to its exact value
RECURSIVE ReliabilitySum(_)
ReliabilitySum(k) ==
    IF k = 0 THEN Zero
    ELSE FAdd(ReliabilitySum(k - 1),
              IF Count(k) = 0 THEN Zero
              ELSE LET d == CenterUnits(k) * Count(k) - 20 * Scale * PosCount(k)
                   IN  Decimal(d * d, 20 * Scale * 20 * Scale * Count(k)))

\* the relative frequency of every non-empty bin is its bin center
Calibrated ==
    \A k \in NonEmptyBins : RelFreq(PosCount(k), Count(k)) = bin_centers[k]

C7_ResolutionWithinUnitInterval ==
    (Called("BrierScoreResolution") /\ AlignedNow /\ N >= 1 /\ ~AllSame) =>
        /\ IsNum(result)
        /\ FLe(Zero, result) /\ FLe(result, One)
        /\ (\A k \in NonEmptyBins : PosCount(k) * N = Count(k) * Positives)
               => result = Zero

\* C8: an evaluation leaves the caller's data, the scorer's configuration
\* and the process-wide numeric error handling as they were.
C8_EvaluationHasNoSideEffect ==
    [][UNCHANGED <<y_true, y_pred, name, precision, bins, bin_centers,
                   np_err_divide>>]_vars

\* C9 as stated: the default bin edges are non-decreasing and define
\* exactly ten intervals, with one bin center per bin.
C9_TenDefaultBins ==
    bins_omitted =>
        /\ Len(bins) - 1 = 10
        /\ \A k \in 1..(Len(bins) - 1) : FLe(bins[k], bins[k + 1])
        /\ Len(bin_centers) = Len(bins) - 1

\* C9 amended: the default bin edges are twelve increasing values from 0 to
\* 1.1: eleven intervals of width 0.1 (up to float64 rounding) covering
\* [0, 1.1], with one bin center per bin.
C9_ElevenDefaultBins ==
    bins_omitted =>
        /\ Len(bins) - 1 = 11
        /\ bins[1] = Zero /\ bins[Len(bins)] = Decimal(11, 10)
        /\ \A k \in 1..(Len(bins) - 1) :
               /\ FLt(bins[k], bins[k + 1])
               /\ Near(FSub(bins[k + 1], bins[k]), 1, 10)
        /\ Len(bin_centers) = Len(bins) - 1

C9_Witness ==
    /\ bins_omitted /\ Len(bin_centers) = 11
    /\ Called("BrierScoreReliability") /\ IsNum(result)

\* C10: every bin center lies in [0, 1] and, for a bin inside [0, 1],
\* within its own bin: bins[k] <= bin_centers[k] <= bins[k+1].
C10_BinCentersWithinTheirBins ==
    \A k \in 1..Len(bin_centers) :
        /\ FLe(Zero, bin_centers[k]) /\ FLe(bin_centers[k], One)
        /\ (FLe(Zero, bins[k]) /\ FLe(bins[k + 1], One)) =>
               (FLe(bins[k], bin_centers[k]) /\ FLe(bin_centers[k], bins[k + 1]))

====
